---------------------------- MODULE Spec2Model ----------------------------
(***************************************************************************)
(* GDM prediction service: the inference pipeline of                       *)
(* gestation_backend/gdm_backend.py (the "extended" variant) and of        *)
(* gestation_backend/fastapi_backend_modified.py (the "legacy" variant).   *)
(*                                                                         *)
(* Numbers are fixed point with three decimals: 18.5 is 18500, 1 is 1000.  *)
(* Class labels and HTTP status codes are plain integers.                  *)
(* A Python dict and a one-row pandas DataFrame are both an ordered        *)
(* mapping: a record [cols, cell] where cols is the sequence of keys in    *)
(* insertion order and cell the function from key to value.                *)
(* Python's None is the empty sequence and a present value x is <<x>>.     *)
(***************************************************************************)
EXTENDS Integers, Sequences, FiniteSets, TLC

VARIABLES
    variant,           \* which of the two programs runs: "extended" or "legacy"
    disk,              \* the bundle directory the process is started on
    startup_pc,        \* position inside lifespan()
    startup_error,     \* the exception lifespan() caught and logged, if any
    model_components,  \* global model_components (None or a dict)
    model_metadata,    \* global model_metadata (None or a dict)
    last,              \* the response of the last handler that ran
    reqs               \* prediction requests whose pipeline runs stage by stage

vars == <<variant, disk, startup_pc, startup_error, model_components, model_metadata, last, reqs>>

-----------------------------------------------------------------------------
(* Values                                                                    *)

Fx(n) == n * 1000

None == <<>>
Some(x) == <<x>>
IsNone(o) == o = <<>>
The(o) == o[1]

Num(n) == [k |-> "num", n |-> n, s |-> ""]
Cat(s) == [k |-> "cat", n |-> 0, s |-> s]
NaN == [k |-> "nan", n |-> 0, s |-> ""]

SeqToSet(s) == {s[i] : i \in 1..Len(s)}

EmptyFrame == [cols |-> <<>>, cell |-> [c \in {} |-> NaN]]

HasCol(df, c) == c \in DOMAIN df.cell

\* df[c] = v : an existing column keeps its place, a new one goes last
SetCol(df, c, v) ==
    [cols |-> IF HasCol(df, c) THEN df.cols ELSE Append(df.cols, c),
     cell |-> [x \in (DOMAIN df.cell) \cup {c} |-> IF x = c THEN v ELSE df.cell[x]]]

\* dict.get / DataFrame.get of a numeric entry, in fixed point
Get(df, c, default) == IF HasCol(df, c) THEN df.cell[c].n ELSE default

RECURSIVE FrameOf(_, _)
\* the ordered mapping holding the keys of the sequence ks, with values from f
FrameOf(ks, f) ==
    IF ks = <<>> THEN EmptyFrame
    ELSE SetCol(FrameOf(SubSeq(ks, 1, Len(ks) - 1), f), ks[Len(ks)], f[ks[Len(ks)]])

\* df[columns] : the listed columns, in the listed order
Select(df, columns) == FrameOf(columns, df.cell)

B2I(b) == IF b THEN 1 ELSE 0

-----------------------------------------------------------------------------
(* Feature Engineer                                                          *)

\* pandas.cut with the default right=True: bin i is (bins[i], bins[i+1]]
PdCut(x, bins, labels) ==
    IF \E i \in 1..Len(labels) : bins[i] < x /\ x <= bins[i + 1]
    THEN Cat(labels[CHOOSE i \in 1..Len(labels) : bins[i] < x /\ x <= bins[i + 1]])
    ELSE NaN

BMI_Category(bmi) ==
    PdCut(bmi, <<0, 18500, 25000, 30000, 50000>>,
          <<"Underweight", "Normal", "Overweight", "Obese">>)

BMI_Risk_Score(bmi) ==
    IF bmi < 18500 THEN 1 ELSE IF bmi < 25000 THEN 0 ELSE IF bmi < 30000 THEN 2 ELSE 4

OGTT_Category(ogtt) ==
    PdCut(ogtt, <<0, 140000, 200000, 1000000>>, <<"Normal", "Impaired", "Diabetic">>)

OGTT_Risk_Score(ogtt) ==
    IF ogtt < 140000 THEN 0 ELSE IF ogtt < 200000 THEN 3 ELSE 5

Hypertensive(sys, dia) == B2I(sys >= 140000 \/ dia >= 90000)

RECURSIVE ILog2(_)
ILog2(m) == IF m <= 1 THEN 0 ELSE 1 + ILog2(m \div 2)

\* numpy.log1p, to the precision the model keeps: ln(1+x) as ln(2) * floor(log2(1+x))
Log1p(x) == 693 * ILog2((Fx(1) + x) \div 1000)

FE_BMI(df) ==
    IF HasCol(df, "BMI")
    THEN SetCol(SetCol(df, "BMI_Category", BMI_Category(df.cell["BMI"].n)),
                "BMI_Risk_Score", Num(Fx(BMI_Risk_Score(df.cell["BMI"].n))))
    ELSE df

FE_OGTT(df) ==
    IF HasCol(df, "OGTT")
    THEN SetCol(SetCol(df, "OGTT_Category", OGTT_Category(df.cell["OGTT"].n)),
                "OGTT_Risk_Score", Num(Fx(OGTT_Risk_Score(df.cell["OGTT"].n))))
    ELSE df

FE_Combined(df) ==
    IF HasCol(df, "BMI_Risk_Score") /\ HasCol(df, "OGTT_Risk_Score")
    THEN SetCol(df, "BMI_OGTT_Risk",
                Num(df.cell["BMI_Risk_Score"].n + df.cell["OGTT_Risk_Score"].n))
    ELSE df

FE_AgeBMI(df) ==
    IF HasCol(df, "Age") /\ HasCol(df, "BMI")
    THEN SetCol(df, "Age_BMI_Interaction",
                Num((df.cell["Age"].n * df.cell["BMI"].n) \div 100000))
    ELSE df

FE_BP(df) ==
    IF HasCol(df, "Sys BP") /\ HasCol(df, "Dia BP")
    THEN LET sys == df.cell["Sys BP"].n
             dia == df.cell["Dia BP"].n
             d1 == SetCol(df, "BP_Ratio",
                          IF dia = 0 THEN NaN ELSE Num((sys * 1000) \div dia))
             d2 == SetCol(d1, "Pulse_Pressure", Num(sys - dia))
             d3 == SetCol(d2, "Mean_Arterial_Pressure", Num((sys + 2 * dia) \div 3))
         IN  SetCol(d3, "Hypertensive", Num(Fx(Hypertensive(sys, dia))))
    ELSE df

\* the age term taken at >= 35, as Advanced_Age is
RiskScoreAgeInclusive(df) ==
    LET r1 == IF HasCol(df, "OGTT_Risk_Score")
              THEN (df.cell["OGTT_Risk_Score"].n * 2000) \div 1000 ELSE 0
        r2 == IF HasCol(df, "BMI_Risk_Score")
              THEN r1 + (df.cell["BMI_Risk_Score"].n * 1500) \div 1000 ELSE r1
        r3 == r2 + B2I(df.cell["Age"].n >= 35000) * 2000
        r4 == r3 + (Get(df, "Family History", 0) * 2000) \div 1000
        r5 == r4 + (Get(df, "PCOS", 0) * 2500) \div 1000
        r6 == r5 + B2I(df.cell["No of Pregnancy"].n > 2000) * 1000
    IN  IF HasCol(df, "Hypertensive")
        THEN r6 + (df.cell["Hypertensive"].n * 1500) \div 1000 ELSE r6

\* risk_score, accumulated term by term (fixed point: 1.5 is 1500)
RiskScore(df) ==
    LET r0 == 0
        r1 == IF HasCol(df, "OGTT_Risk_Score")
              THEN r0 + (df.cell["OGTT_Risk_Score"].n * 2000) \div 1000 ELSE r0
        r2 == IF HasCol(df, "BMI_Risk_Score")
              THEN r1 + (df.cell["BMI_Risk_Score"].n * 1500) \div 1000 ELSE r1
        r3 == r2 + B2I(df.cell["Age"].n > 35000) * 2000
        r4 == r3 + (Get(df, "Family History", 0) * 2000) \div 1000
        r5 == r4 + (Get(df, "PCOS", 0) * 2500) \div 1000
        r6 == r5 + B2I(df.cell["No of Pregnancy"].n > 2000) * 1000
        r7 == IF HasCol(df, "Hypertensive")
              THEN r6 + (df.cell["Hypertensive"].n * 1500) \div 1000 ELSE r6
    IN  r7

FE_Indicators(df) ==
    LET d1 == IF HasCol(df, "BMI")
              THEN SetCol(df, "High_Risk_BMI", Num(Fx(B2I(df.cell["BMI"].n >= 30000))))
              ELSE df
        d2 == IF HasCol(d1, "OGTT")
              THEN SetCol(d1, "High_Risk_OGTT", Num(Fx(B2I(d1.cell["OGTT"].n >= 140000))))
              ELSE d1
    IN  SetCol(d2, "Advanced_Age", Num(Fx(B2I(d2.cell["Age"].n >= 35000))))

FE_Log(df) ==
    LET d1 == IF HasCol(df, "BMI")
              THEN SetCol(df, "BMI_log", Num(Log1p(df.cell["BMI"].n))) ELSE df
    IN  IF HasCol(d1, "OGTT")
        THEN SetCol(d1, "OGTT_log", Num(Log1p(d1.cell["OGTT"].n))) ELSE d1

\* advanced_feature_engineering(df): [raised, df]. df['Age'] and
\* df['No of Pregnancy'] are read unconditionally: KeyError when absent.
advanced_feature_engineering(df) ==
    LET d5 == FE_BP(FE_AgeBMI(FE_Combined(FE_OGTT(FE_BMI(df)))))
    IN  IF ~HasCol(d5, "Age") \/ ~HasCol(d5, "No of Pregnancy")
        THEN [raised |-> TRUE, df |-> df]
        ELSE [raised |-> FALSE,
              df |-> FE_Log(FE_Indicators(
                         SetCol(d5, "Comprehensive_Risk_Score", Num(RiskScore(d5)))))]

-----------------------------------------------------------------------------
(* Preprocessor                                                              *)

\* str(value) of a cell. Of the numerals only "0" and "1" are told apart: the
\* encoders of the model hold no other numeral in their vocabularies.
Str(cell) ==
    IF cell.k = "cat" THEN cell.s
    ELSE IF cell.k = "nan" THEN "nan"
    ELSE IF cell.n = 0 THEN "0"
    ELSE IF cell.n = 1000 THEN "1"
    ELSE "number"

\* an unseen label given a code of its own, past the trained ones
EncoderTransformExtend(classes, label) ==
    IF \E i \in 1..Len(classes) : classes[i] = label
    THEN [raised |-> FALSE,
          code |-> (CHOOSE i \in 1..Len(classes) : classes[i] = label) - 1]
    ELSE [raised |-> FALSE, code |-> Len(classes)]

\* LabelEncoder.transform of one value: [raised, code]; ValueError on a label
\* that is not among classes_
EncoderTransform(classes, label) ==
    IF \E i \in 1..Len(classes) : classes[i] = label
    THEN [raised |-> FALSE,
          code |-> (CHOOSE i \in 1..Len(classes) : classes[i] = label) - 1]
    ELSE [raised |-> TRUE, code |-> 0]

\* one iteration of the encoding loop of gdm_backend.predict_with_ensemble
EncodeColumnExtended(df, col, classes) ==
    IF ~HasCol(df, col) THEN df
    ELSE IF df.cell[col].k \in {"cat", "nan"} \/ col \in {"BMI_Category", "OGTT_Category"}
         THEN LET t == EncoderTransform(classes, Str(df.cell[col]))
              IN  SetCol(df, col, IF t.raised THEN Num(0) ELSE Num(Fx(t.code)))
         ELSE df

\* one iteration of the encoding loop of fastapi_backend_modified.predict_with_ensemble
EncodeColumnLegacy(df, col, classes) ==
    IF ~HasCol(df, col) THEN df
    ELSE LET t == EncoderTransform(classes, Str(df.cell[col]))
         IN  SetCol(df, col, IF t.raised THEN Num(0) ELSE Num(Fx(t.code)))

RECURSIVE EncodeAll(_, _, _)
\* for col, encoder in preprocessing['label_encoders'].items(): ...
EncodeAll(v, df, encoders) ==
    IF encoders = <<>> THEN df
    ELSE LET e == Head(encoders)
         IN  EncodeAll(v,
                       IF v = "extended" THEN EncodeColumnExtended(df, e.col, e.classes)
                       ELSE EncodeColumnLegacy(df, e.col, e.classes),
                       Tail(encoders))

\* 'Risk' in col or 'Score' in col, over the column names of the model
RiskOrScoreName(col) ==
    col \in {"BMI_Risk_Score", "OGTT_Risk_Score", "BMI_OGTT_Risk",
             "Comprehensive_Risk_Score", "High_Risk_BMI", "High_Risk_OGTT",
             "Genetic_Risk", "Diet_Score"}

\* every absent column filled with 0
DefaultForZero(col) == 0

\* the value a feature column absent from the record is filled with
DefaultFor(col) ==
    IF RiskOrScoreName(col) THEN 0
    ELSE IF col = "Age" THEN Fx(28)
    ELSE IF col = "BMI" THEN Fx(23)
    ELSE IF col = "OGTT" THEN Fx(120)
    ELSE IF col = "Hemoglobin" THEN Fx(12)
    ELSE IF col = "HDL" THEN Fx(50)
    ELSE 0

RECURSIVE FillMissing(_, _)
FillMissing(df, columns) ==
    IF columns = <<>> THEN df
    ELSE FillMissing(IF HasCol(df, Head(columns)) THEN df
                     ELSE SetCol(df, Head(columns), Num(DefaultFor(Head(columns)))),
                     Tail(columns))

\* gdm_backend: the try block selecting the training features; any error in it
\* (a preprocessing state without 'feature_columns') falls back to all columns
AlignExtended(df, preprocessing) ==
    IF IsNone(preprocessing.feature_columns) THEN df
    ELSE Select(FillMissing(df, The(preprocessing.feature_columns)),
                The(preprocessing.feature_columns))

\* fastapi_backend_modified: processed_data[feature_columns], KeyError when the
\* key or a listed column is absent
AlignLegacy(df, preprocessing) ==
    IF IsNone(preprocessing.feature_columns)
    THEN [raised |-> TRUE, cause |-> "'feature_columns'", df |-> df]
    ELSE IF \E c \in SeqToSet(The(preprocessing.feature_columns)) : ~HasCol(df, c)
    THEN [raised |-> TRUE, cause |-> "not in index", df |-> df]
    ELSE [raised |-> FALSE, cause |-> "",
          df |-> Select(df, The(preprocessing.feature_columns))]

AllNumeric(df) == \A c \in DOMAIN df.cell : df.cell[c].k # "cat"

\* scaler.transform(final_data); the try block falls back to the unscaled data
\* when the key is absent, the width differs from the fitted one, or a cell is text
Scale(df, preprocessing) ==
    IF IsNone(preprocessing.scaler) THEN df
    ELSE LET sc == The(preprocessing.scaler)
         IN  IF sc.n_features_in # Len(df.cols) \/ ~AllNumeric(df) THEN df
             ELSE [cols |-> df.cols,
                   cell |-> [c \in DOMAIN df.cell |->
                               IF df.cell[c].k = "num"
                               THEN Num(((df.cell[c].n - sc.mean) * 1000) \div sc.scale)
                               ELSE df.cell[c]]]

-----------------------------------------------------------------------------
(* Ensemble Predictor                                                        *)

\* model.predict(X) of one base model on the one-row frame X: [raised, pred],
\* pred in fixed point like every number (class 1 is 1000)
BasePredict(model, X) ==
    IF model.kind = "raises" \/ ~AllNumeric(X) THEN [raised |-> TRUE, pred |-> 0]
    ELSE IF model.kind = "const" THEN [raised |-> FALSE, pred |-> model.out]
    ELSE IF ~HasCol(X, model.col) THEN [raised |-> TRUE, pred |-> 0]
    ELSE [raised |-> FALSE, pred |-> Fx(B2I(X.cell[model.col].n >= model.cut))]

\* the column a base model contributes: its prediction, or np.zeros on failure
BaseColumn(model, X) ==
    LET r == BasePredict(model, X) IN IF r.raised THEN 0 ELSE r.pred

RECURSIVE IndividualPredictionsDropFailed(_, _)
\* a base model whose prediction fails left out of the stack
IndividualPredictionsDropFailed(models, X) ==
    IF models = <<>> THEN <<>>
    ELSE IF Head(models).name # "Ensemble" /\ ~BasePredict(Head(models), X).raised
         THEN <<BaseColumn(Head(models), X)>>
              \o IndividualPredictionsDropFailed(Tail(models), X)
         ELSE IndividualPredictionsDropFailed(Tail(models), X)

RECURSIVE IndividualPredictions(_, _)
\* the loop over models.items(), skipping the entry named 'Ensemble'
IndividualPredictions(models, X) ==
    IF models = <<>> THEN <<>>
    ELSE IF Head(models).name # "Ensemble"
         THEN <<BaseColumn(Head(models), X)>> \o IndividualPredictions(Tail(models), X)
         ELSE IndividualPredictions(Tail(models), X)

HasModel(models, name) == \E i \in 1..Len(models) : models[i].name = name
ModelNamed(models, name) == models[CHOOSE i \in 1..Len(models) : models[i].name = name]

AnyVote(stacked) == \E i \in 1..Len(stacked) : stacked[i] # 0

\* ensemble_model.predict(stacked_predictions): [raised, pred]
EnsemblePredict(m, stacked) ==
    IF m.n_features_in # Len(stacked) THEN [raised |-> TRUE, pred |-> 0]
    ELSE [raised |-> FALSE,
          pred |-> IF m.follow THEN Fx(B2I(AnyVote(stacked))) ELSE m.value]

\* ensemble_model.predict_proba(stacked_predictions): [raised, proba]
EnsemblePredictProba(m, stacked) ==
    LET p == IF AnyVote(stacked) THEN m.p_hi ELSE m.p_lo
    IN  IF m.proba = "raises" THEN [raised |-> TRUE, proba |-> <<>>]
        ELSE IF m.proba = "one" THEN [raised |-> FALSE, proba |-> <<p>>]
        ELSE [raised |-> FALSE, proba |-> <<Fx(1) - p, p>>]

\* an even split returned when predict_proba raises
FinalProbabilitiesUniform(m, stacked, pred) ==
    LET r == EnsemblePredictProba(m, stacked)
    IN  IF r.raised THEN <<500, 500>> ELSE r.proba

\* the probabilities returned: predict_proba, or [1-pred, pred] when it raises
FinalProbabilities(m, stacked, pred) ==
    LET r == EnsemblePredictProba(m, stacked)
    IN  IF r.raised THEN <<Fx(1) - pred, pred>> ELSE r.proba

-----------------------------------------------------------------------------
(* Risk Interpreter                                                          *)

\* int(x): truncation toward zero
IntTrunc(x) == IF x >= 0 THEN x \div 1000 ELSE -((-x) \div 1000)

\* classes[int(prediction)] with classes = ['Non GDM', 'GDM']: [raised, label]
ClassLabel(prediction) ==
    LET i == IntTrunc(prediction)
    IN  IF i \in {0, -2} THEN [raised |-> FALSE, label |-> "Non GDM"]
        ELSE IF i \in {1, -1} THEN [raised |-> FALSE, label |-> "GDM"]
        ELSE [raised |-> TRUE, label |-> ""]

\* gdm_probability from the probability vector and the predicted class
GdmProbability(proba, prediction) ==
    IF Len(proba) >= 2 THEN proba[2]
    ELSE IF prediction = Fx(1) THEN proba[1] ELSE Fx(1) - proba[1]

NonGdmProbability(proba, prediction) ==
    IF Len(proba) >= 2 THEN proba[1]
    ELSE Fx(1) - GdmProbability(proba, prediction)

Max(a, b) == IF a >= b THEN a ELSE b

\* preprocessing.get('optimal_threshold', 0.5)
OptimalThreshold(preprocessing) ==
    IF IsNone(preprocessing.optimal_threshold) THEN 500
    ELSE The(preprocessing.optimal_threshold)

ThresholdLabelStrict(gdm_probability, optimal_threshold) ==
    IF gdm_probability > optimal_threshold THEN "GDM" ELSE "Non GDM"

ThresholdLabel(gdm_probability, optimal_threshold) ==
    IF gdm_probability >= optimal_threshold THEN "GDM" ELSE "Non GDM"

\* high_risk_factors = sum([...]) over the raw record
HighRiskFactors(patient_data) ==
      B2I(Get(patient_data, "BMI", Fx(20)) >= Fx(30))
    + B2I(Get(patient_data, "OGTT", Fx(100)) >= Fx(140))
    + B2I(Get(patient_data, "Age", Fx(20)) >= Fx(35))
    + B2I(Get(patient_data, "Family History", 0) = Fx(1))
    + B2I(Get(patient_data, "PCOS", 0) = Fx(1))

RiskCategoryExtendedStrict(gdm_probability, high_risk_factors) ==
    IF gdm_probability > 700 \/ high_risk_factors >= 3 THEN "High Risk"
    ELSE IF gdm_probability >= 400 \/ high_risk_factors >= 2 THEN "Moderate Risk"
    ELSE "Low Risk"

RiskCategoryExtendedAnd(gdm_probability, high_risk_factors) ==
    IF gdm_probability >= 700 /\ high_risk_factors >= 3 THEN "High Risk"
    ELSE IF gdm_probability >= 400 /\ high_risk_factors >= 2 THEN "Moderate Risk"
    ELSE "Low Risk"

RiskCategoryExtended(gdm_probability, high_risk_factors) ==
    IF gdm_probability >= 700 \/ high_risk_factors >= 3 THEN "High Risk"
    ELSE IF gdm_probability >= 400 \/ high_risk_factors >= 2 THEN "Moderate Risk"
    ELSE "Low Risk"

RiskCategoryLegacyInclusive(gdm_probability) ==
    IF gdm_probability <= 300 THEN "Low Risk"
    ELSE IF gdm_probability <= 600 THEN "Moderate Risk"
    ELSE "High Risk"

RiskCategoryLegacy(gdm_probability) ==
    IF gdm_probability < 300 THEN "Low Risk"
    ELSE IF gdm_probability < 600 THEN "Moderate Risk"
    ELSE "High Risk"

RiskFactorsExtended(d) ==
    [obesity |-> Get(d, "BMI", Fx(20)) >= Fx(30),
     overweight |-> Fx(25) <= Get(d, "BMI", Fx(20)) /\ Get(d, "BMI", Fx(20)) < Fx(30),
     high_glucose |-> Get(d, "OGTT", Fx(100)) >= Fx(140),
     impaired_glucose |-> Fx(120) <= Get(d, "OGTT", Fx(100))
                          /\ Get(d, "OGTT", Fx(100)) < Fx(140),
     family_history |-> Get(d, "Family History", 0) = Fx(1),
     pcos |-> Get(d, "PCOS", 0) = Fx(1),
     prediabetes |-> Get(d, "Prediabetes", 0) = Fx(1),
     advanced_age |-> Get(d, "Age", Fx(20)) >= Fx(35),
     high_bp |-> Get(d, "Sys BP", 0) >= Fx(140) \/ Get(d, "Dia BP", 0) >= Fx(90),
     previous_complications |-> Get(d, "Large Child or Birth Default", 0) = Fx(1)
                                \/ Get(d, "unexplained prenetal loss", 0) = Fx(1),
     sedentary_lifestyle |-> Get(d, "Sedentary Lifestyle", 0) = Fx(1),
     low_hdl |-> Get(d, "HDL", Fx(50)) < Fx(40),
     anemia |-> Get(d, "Hemoglobin", Fx(12)) < Fx(11),
     multiple_pregnancies |-> Get(d, "No of Pregnancy", Fx(1)) > Fx(2)]

RiskFactorsLegacy(d) ==
    [family_history |-> Get(d, "Family History", 0) = Fx(1),
     pcos |-> Get(d, "PCOS", 0) = Fx(1),
     prediabetes |-> Get(d, "Prediabetes", 0) = Fx(1),
     advanced_age |-> Get(d, "Age", 0) > Fx(35),
     high_bp |-> Get(d, "Sys BP", 0) > Fx(140) \/ Get(d, "Dia BP", 0) > Fx(90),
     previous_complications |-> Get(d, "Large Child or Birth Default", 0) = Fx(1)
                                \/ Get(d, "unexplained prenetal loss", 0) = Fx(1),
     sedentary_lifestyle |-> Get(d, "Sedentary Lifestyle", 0) = Fx(1),
     low_hdl |-> Get(d, "HDL", 0) < Fx(40),
     anemia |-> Get(d, "Hemoglobin", 0) < Fx(11),
     multiple_pregnancies |-> Get(d, "No of Pregnancy", 0) > Fx(2)]

HighTemplate ==
    [immediate_action |-> "Consult with healthcare provider immediately for comprehensive GDM management",
     monitoring |-> "Regular blood glucose monitoring and dietary modifications required",
     lifestyle |-> "Implement supervised exercise program and nutritional counseling",
     follow_up |-> "Weekly monitoring with healthcare team recommended"]

ModerateTemplate ==
    [immediate_action |-> "Schedule follow-up appointment within 1-2 weeks",
     monitoring |-> "Increase frequency of glucose monitoring",
     lifestyle |-> "Focus on healthy diet and regular physical activity",
     follow_up |-> "Bi-weekly check-ups recommended"]

LowTemplate ==
    [immediate_action |-> "Continue routine prenatal care",
     monitoring |-> "Standard prenatal glucose screening as scheduled",
     lifestyle |-> "Maintain healthy lifestyle with balanced diet and exercise",
     follow_up |-> "Regular prenatal appointments as planned"]

RecommendationsByRisk(prediction_label, risk_category) ==
    IF risk_category = "High Risk" THEN HighTemplate
    ELSE IF risk_category = "Moderate Risk" THEN ModerateTemplate
    ELSE LowTemplate

Recommendations(prediction_label, risk_category) ==
    IF prediction_label = "GDM" \/ risk_category = "High Risk" THEN HighTemplate
    ELSE IF risk_category = "Moderate Risk" THEN ModerateTemplate
    ELSE LowTemplate

\* gdm_backend.predict_gdm after predict_with_ensemble has returned:
\* [raised, cause, outcome]
InterpretExtended(patient_data, prediction, proba, preprocessing) ==
    LET gdm == GdmProbability(proba, prediction)
        non == NonGdmProbability(proba, prediction)
        label == ThresholdLabel(gdm, OptimalThreshold(preprocessing))
        risk == RiskCategoryExtended(gdm, HighRiskFactors(patient_data))
    IN  IF ClassLabel(prediction).raised
        THEN [raised |-> TRUE, cause |-> "list index out of range", outcome |-> None]
        ELSE [raised |-> FALSE, cause |-> "",
              outcome |-> Some([prediction |-> label,
                                gdm_probability |-> gdm,
                                non_gdm_probability |-> non,
                                risk_category |-> risk,
                                confidence |-> Max(gdm, non),
                                risk_factors |-> RiskFactorsExtended(patient_data),
                                clinical_recommendations |-> Recommendations(label, risk)])]

\* fastapi_backend_modified.predict_gdm after predict_with_ensemble has returned
InterpretLegacy(patient_data, prediction, proba, metadata) ==
    LET classification == The(metadata.problem_type) = "classification"
        gdm == IF classification THEN GdmProbability(proba, prediction) ELSE prediction
        non == IF classification THEN NonGdmProbability(proba, prediction)
               ELSE Fx(1) - prediction
        label == IF classification THEN ClassLabel(prediction).label
                 ELSE IF prediction > 500 THEN "GDM" ELSE "Non GDM"
    IN  IF IsNone(metadata.problem_type)
        THEN [raised |-> TRUE, cause |-> "'problem_type'", outcome |-> None]
        ELSE IF classification /\ ClassLabel(prediction).raised
        THEN [raised |-> TRUE, cause |-> "list index out of range", outcome |-> None]
        ELSE [raised |-> FALSE, cause |-> "",
              outcome |-> Some([prediction |-> label,
                                gdm_probability |-> gdm,
                                non_gdm_probability |-> non,
                                risk_category |-> RiskCategoryLegacy(gdm),
                                confidence |-> Max(gdm, non),
                                risk_factors |-> RiskFactorsLegacy(patient_data)])]

-----------------------------------------------------------------------------
(* Request validation (PatientData)                                          *)

F(name, lo, hi, int) == [name |-> name, lo |-> lo, hi |-> hi, int |-> int]

\* the fields of PatientData by alias, in declaration order, with ge/le bounds
Schema(v) ==
    <<F("Age", Fx(15), Fx(60), FALSE),
      F("No of Pregnancy", 0, Fx(20), TRUE),
      F("Gestation in previous Pregnancy", 0, Fx(45), FALSE)>>
    \o (IF v = "extended"
        THEN <<F("BMI", Fx(15), Fx(50), FALSE), F("OGTT", Fx(50), Fx(400), FALSE)>>
        ELSE <<>>)
    \o <<F("HDL", Fx(10), Fx(150), FALSE),
         F("Family History", 0, Fx(1), TRUE),
         F("unexplained prenetal loss", 0, Fx(1), TRUE),
         F("Large Child or Birth Default", 0, Fx(1), TRUE),
         F("PCOS", 0, Fx(1), TRUE),
         F("Sys BP", Fx(70), Fx(200), FALSE),
         F("Dia BP", Fx(40), Fx(130), FALSE),
         F("Hemoglobin", Fx(5), Fx(20), FALSE),
         F("Sedentary Lifestyle", 0, Fx(1), TRUE),
         F("Prediabetes", 0, Fx(1), TRUE)>>

FieldValid(raw, f) ==
    /\ HasCol(raw, f.name)
    /\ raw.cell[f.name].k = "num"
    /\ f.lo <= raw.cell[f.name].n /\ raw.cell[f.name].n <= f.hi
    /\ f.int => raw.cell[f.name].n % 1000 = 0

\* the comparison taken as >, so that equal pressures pass
validate_blood_pressure_gt(raw) ==
    LET sysOk == FieldValid(raw, F("Sys BP", Fx(70), Fx(200), FALSE))
        diaOk == FieldValid(raw, F("Dia BP", Fx(40), Fx(130), FALSE))
    IN  (sysOk /\ diaOk) => raw.cell["Dia BP"].n <= raw.cell["Sys BP"].n

\* validate_blood_pressure: runs on a Dia_BP that passed its bounds, and compares
\* only when Sys_BP passed its own validation ('Sys_BP' in info.data)
validate_blood_pressure(raw) ==
    LET sysOk == FieldValid(raw, F("Sys BP", Fx(70), Fx(200), FALSE))
        diaOk == FieldValid(raw, F("Dia BP", Fx(40), Fx(130), FALSE))
    IN  (sysOk /\ diaOk) => raw.cell["Dia BP"].n < raw.cell["Sys BP"].n

Validate(v, raw) ==
    /\ \A i \in 1..Len(Schema(v)) : FieldValid(raw, Schema(v)[i])
    /\ validate_blood_pressure(raw)

SchemaNames(v) == [i \in 1..Len(Schema(v)) |-> Schema(v)[i].name]

\* patient_data.model_dump(by_alias=True): the declared fields, in declaration order
ModelDump(v, raw) == Select(raw, SchemaNames(v))

-----------------------------------------------------------------------------
(* predict_gdm, stage by stage                                               *)

NewCtx(patient_data) ==
    [pc |-> "start", patient_data |-> patient_data, data |-> EmptyFrame,
     fe_raised |-> FALSE, enhanced |-> EmptyFrame, processed |-> EmptyFrame,
     final_data |-> EmptyFrame, scaled_df |-> EmptyFrame, stacked |-> <<>>,
     predictions |-> <<>>, probabilities |-> <<>>, stages |-> <<>>,
     cause |-> <<>>, outcome |-> None]

Fail(c, cause) == [c EXCEPT !.pc = "failed", !.cause = cause]

\* raise ValueError(f"Prediction failed: {str(e)}")
Wrapped(e) == <<"Prediction failed", e>>

Ran(c, stage) == Append(c.stages, stage)

\* Case Number kept as a running count in the caller's dict
FillDefaultsLegacyCounting(patient_data) ==
    LET d1 == SetCol(patient_data, "Case Number",
                     Num(Get(patient_data, "Case Number", -1000) + 1000))
        d2 == IF HasCol(d1, "BMI") THEN d1 ELSE SetCol(d1, "BMI", Num(Fx(22)))
    IN  IF HasCol(d2, "OGTT") THEN d2 ELSE SetCol(d2, "OGTT", Num(Fx(120)))

\* fastapi_backend_modified.predict_gdm: defaults written into patient_data
FillDefaultsLegacy(patient_data) ==
    LET d1 == IF HasCol(patient_data, "Case Number") THEN patient_data
              ELSE SetCol(patient_data, "Case Number", Num(0))
        d2 == IF HasCol(d1, "BMI") THEN d1 ELSE SetCol(d1, "BMI", Num(Fx(22)))
    IN  IF HasCol(d2, "OGTT") THEN d2 ELSE SetCol(d2, "OGTT", Num(Fx(120)))

\* the None check moved inside the try block: the cause gets wrapped
StageStartInsideTry(v, c, mco) ==
    IF IsNone(mco) THEN Fail(c, Wrapped("Model not loaded"))
    ELSE LET pd == IF v = "legacy" THEN FillDefaultsLegacy(c.patient_data)
                   ELSE c.patient_data
         IN  [c EXCEPT !.patient_data = pd, !.data = pd,
                       !.pc = IF v = "extended" THEN "fe" ELSE "encode"]

\* the entry of predict_gdm up to the call of predict_with_ensemble
StageStart(v, c, mco) ==
    IF IsNone(mco) THEN Fail(c, <<"Model not loaded">>)
    ELSE LET pd == IF v = "legacy" THEN FillDefaultsLegacy(c.patient_data)
                   ELSE c.patient_data
         IN  [c EXCEPT !.patient_data = pd, !.data = pd,
                       !.pc = IF v = "extended" THEN "fe" ELSE "encode"]

\* the call of advanced_feature_engineering without its try block
StageFEUncaught(v, c, mco) ==
    LET fe == advanced_feature_engineering(c.data)
    IN  IF fe.raised
        THEN Fail([c EXCEPT !.fe_raised = TRUE, !.stages = Ran(c, "feature_engineering")],
                  Wrapped("'Age'"))
        ELSE [c EXCEPT !.fe_raised = fe.raised,
                       !.enhanced = fe.df,
                       !.stages = Ran(c, "feature_engineering"),
                       !.pc = "encode"]

StageFE(v, c, mco) ==
    LET fe == advanced_feature_engineering(c.data)
    IN  [c EXCEPT !.fe_raised = fe.raised,
                  !.enhanced = IF fe.raised THEN c.data ELSE fe.df,
                  !.stages = Ran(c, "feature_engineering"),
                  !.pc = "encode"]

StageEncode(v, c, mco) ==
    LET pre == The(mco).preprocessing
        src == IF v = "extended" THEN c.enhanced ELSE c.data
    IN  IF IsNone(pre.label_encoders)
        THEN Fail([c EXCEPT !.stages = Ran(c, "encoding")], Wrapped("'label_encoders'"))
        ELSE [c EXCEPT !.processed = EncodeAll(v, src, The(pre.label_encoders)),
                       !.stages = Ran(c, "encoding"),
                       !.pc = "align"]

StageAlign(v, c, mco) ==
    LET pre == The(mco).preprocessing
        c1 == [c EXCEPT !.stages = Ran(c, "alignment")]
    IN  IF v = "extended"
        THEN [c1 EXCEPT !.final_data = AlignExtended(c.processed, pre), !.pc = "scale"]
        ELSE LET a == AlignLegacy(c.processed, pre)
             IN  IF a.raised THEN Fail(c1, Wrapped(a.cause))
                 ELSE [c1 EXCEPT !.final_data = a.df, !.scaled_df = a.df, !.pc = "base"]

StageScale(v, c, mco) ==
    [c EXCEPT !.scaled_df = Scale(c.final_data, The(mco).preprocessing),
              !.stages = Ran(c, "scaling"),
              !.pc = "base"]

StageBase(v, c, mco) ==
    LET individual_predictions == IndividualPredictions(The(mco).models, c.scaled_df)
        c1 == [c EXCEPT !.stages = Ran(c, "base_models")]
    IN  IF individual_predictions = <<>>
        THEN Fail(c1, Wrapped("No individual models available for prediction"))
        ELSE [c1 EXCEPT !.stacked = individual_predictions, !.pc = "meta"]

\* a missing meta-model replaced by a vote of the base models
StageMetaVote(v, c, mco) ==
    LET models == The(mco).models
        c1 == [c EXCEPT !.stages = Ran(c, "ensemble")]
        m == ModelNamed(models, "Ensemble")
        r == EnsemblePredict(m, c.stacked)
        vote == Fx(B2I(AnyVote(c.stacked)))
    IN  IF ~HasModel(models, "Ensemble")
        THEN [c1 EXCEPT !.predictions = <<vote>>,
                        !.probabilities = <<<<Fx(1) - vote, vote>>>>,
                        !.pc = "interpret"]
        ELSE IF r.raised THEN Fail(c1, Wrapped("X has a different number of features"))
        ELSE [c1 EXCEPT !.predictions = <<r.pred>>,
                        !.probabilities = <<FinalProbabilities(m, c.stacked, r.pred)>>,
                        !.pc = "interpret"]

StageMeta(v, c, mco) ==
    LET models == The(mco).models
        c1 == [c EXCEPT !.stages = Ran(c, "ensemble")]
        m == ModelNamed(models, "Ensemble")
        r == EnsemblePredict(m, c.stacked)
    IN  IF ~HasModel(models, "Ensemble") THEN Fail(c1, Wrapped("'Ensemble'"))
        ELSE IF r.raised THEN Fail(c1, Wrapped("X has a different number of features"))
        ELSE [c1 EXCEPT !.predictions = <<r.pred>>,
                        !.probabilities = <<FinalProbabilities(m, c.stacked, r.pred)>>,
                        !.pc = "interpret"]

StageInterpret(v, c, mco, mdo) ==
    LET prediction == IF Len(c.predictions) > 0 THEN c.predictions[1] ELSE 0
        proba == IF Len(c.probabilities) > 0 THEN c.probabilities[1] ELSE <<Fx(1), 0>>
        r == IF v = "extended"
             THEN InterpretExtended(c.patient_data, prediction, proba,
                                    The(mco).preprocessing)
             ELSE InterpretLegacy(c.patient_data, prediction, proba, The(mdo))
        c1 == [c EXCEPT !.stages = Ran(c, "interpretation")]
    IN  IF r.raised THEN Fail(c1, Wrapped(r.cause))
        ELSE [c1 EXCEPT !.outcome = r.outcome, !.pc = "done"]

Finished(c) == c.pc \in {"done", "failed"}

\* one stage of predict_gdm against the globals as they are when the stage runs
StageStep(v, c, mco, mdo) ==
    IF c.pc = "start" THEN StageStart(v, c, mco)
    ELSE IF c.pc = "fe" THEN StageFE(v, c, mco)
    ELSE IF c.pc = "encode" THEN StageEncode(v, c, mco)
    ELSE IF c.pc = "align" THEN StageAlign(v, c, mco)
    ELSE IF c.pc = "scale" THEN StageScale(v, c, mco)
    ELSE IF c.pc = "base" THEN StageBase(v, c, mco)
    ELSE IF c.pc = "meta" THEN StageMeta(v, c, mco)
    ELSE IF c.pc = "interpret" THEN StageInterpret(v, c, mco, mdo)
    ELSE c

RECURSIVE RunStages(_, _, _, _)
RunStages(v, c, mco, mdo) ==
    IF Finished(c) THEN c ELSE RunStages(v, StageStep(v, c, mco, mdo), mco, mdo)

\* predict_gdm(patient_data) run from entry to return against one loaded state
predict_gdm(v, patient_data, mco, mdo) == RunStages(v, NewCtx(patient_data), mco, mdo)

\* setdefault in place of get: the default threshold is written into the shared
\* preprocessing state by the first request that is interpreted
GlobalsAfterStageSetDefault(v, c, mco) ==
    IF c.pc = "done" /\ ~IsNone(mco)
    THEN Some([The(mco) EXCEPT !.preprocessing.optimal_threshold =
                                   Some(OptimalThreshold(The(mco).preprocessing))])
    ELSE mco

\* what predict_gdm and predict_with_ensemble leave in the globals: they read
\* model_components and write only their own copies (data.copy(), new frames)
GlobalsAfterStage(v, c, mco) == mco

\* the response of the /predict endpoint for a finished predict_gdm
PredictResponse(c, mdo) ==
    IF c.pc = "failed"
    THEN [kind |-> "predict", status |-> 500,
          detail |-> <<"Prediction failed">> \o c.cause, ctx |-> c]
    ELSE IF ~IsNone(mdo) /\ IsNone(The(mdo).version)
    THEN [kind |-> "predict", status |-> 500,
          detail |-> <<"Prediction failed", "'version'">>, ctx |-> c]
    ELSE [kind |-> "predict", status |-> 200, detail |-> <<>>, ctx |-> c,
          success |-> TRUE, outcome |-> The(c.outcome),
          model_version |-> IF IsNone(mdo) THEN "unknown" ELSE The(The(mdo).version)]

\* the framework's answer to a request that fails PatientData validation
ValidationResponse(raw) ==
    [kind |-> "predict", status |-> 422, detail |-> <<"validation error">>,
     ctx |-> NewCtx(raw)]

-----------------------------------------------------------------------------
(* Artifact Loader                                                           *)

HasFile(files, filename) == \E i \in 1..Len(files) : files[i].filename = filename
FileNamed(files, filename) ==
    files[CHOOSE i \in 1..Len(files) : files[i].filename = filename]

\* loaded_models: one entry per item of metadata['saved_models'], in its order
LoadedModels(saved_models, files) ==
    [i \in 1..Len(saved_models) |->
        [FileNamed(files, saved_models[i].filename).model
            EXCEPT !.name = saved_models[i].name]]

\* load_model_version(version_dir): [raised, cause, components]
load_model_version(d) ==
    IF IsNone(d.metadata)
    THEN [raised |-> TRUE, cause |-> "model_metadata.json", components |-> None]
    ELSE IF IsNone(d.preprocessing)
    THEN [raised |-> TRUE, cause |-> "preprocessing.pkl", components |-> None]
    ELSE IF IsNone(The(d.metadata).saved_models)
    THEN [raised |-> TRUE, cause |-> "'saved_models'", components |-> None]
    ELSE IF \E i \in 1..Len(The(The(d.metadata).saved_models)) :
                ~HasFile(d.files, The(The(d.metadata).saved_models)[i].filename)
    THEN [raised |-> TRUE, cause |-> "model file", components |-> None]
    ELSE [raised |-> FALSE, cause |-> "",
          components |->
              Some([models |-> LoadedModels(The(The(d.metadata).saved_models), d.files),
                    preprocessing |-> The(d.preprocessing),
                    metadata |-> The(d.metadata)])]

\* load_latest_model()
load_latest_model(d) ==
    IF d.latest_exists THEN load_model_version(d)
    ELSE [raised |-> TRUE, cause |-> "No latest model found", components |-> None]

\* the metadata keys the logging lines of lifespan() index without a default
StartupLogKeys(v) ==
    IF v = "extended" THEN <<"version", "problem_type">>
    ELSE <<"version", "problem_type", "final_score", "score_metric">>

HasKey(metadata, key) ==
    IF key = "version" THEN ~IsNone(metadata.version)
    ELSE IF key = "problem_type" THEN ~IsNone(metadata.problem_type)
    ELSE IF key = "final_score" THEN ~IsNone(metadata.final_score)
    ELSE IF key = "score_metric" THEN ~IsNone(metadata.score_metric)
    ELSE IF key = "timestamp" THEN ~IsNone(metadata.timestamp)
    ELSE IF key = "feature_columns" THEN ~IsNone(metadata.feature_columns)
    ELSE IF key = "saved_models" THEN ~IsNone(metadata.saved_models)
    ELSE FALSE

\* the first key of keys absent from metadata (the KeyError raised), or None
MissingKey(metadata, keys) ==
    IF \E i \in 1..Len(keys) : ~HasKey(metadata, keys[i])
    THEN Some(keys[CHOOSE i \in 1..Len(keys) :
                     /\ ~HasKey(metadata, keys[i])
                     /\ \A j \in 1..(i - 1) : HasKey(metadata, keys[j])])
    ELSE None

-----------------------------------------------------------------------------
(* lifespan(): the startup block                                             *)

\* model_components = load_latest_model(); an exception goes to the except
\* clause, which logs it, and startup ends
LifespanLoad ==
    /\ startup_pc = "load"
    /\ LET r == load_latest_model(disk)
       IN  IF r.raised
           THEN /\ startup_error' = Some(r.cause)
                /\ startup_pc' = "serving"
                /\ UNCHANGED model_components
           ELSE /\ model_components' = r.components
                /\ startup_pc' = "assign"
                /\ UNCHANGED startup_error
    /\ UNCHANGED <<variant, disk, model_metadata, last, reqs>>

\* model_metadata = model_components['metadata']
LifespanAssign ==
    /\ startup_pc = "assign"
    /\ model_metadata' = Some(The(model_components).metadata)
    /\ startup_pc' = "log"
    /\ UNCHANGED <<variant, disk, startup_error, model_components, last, reqs>>

\* an except clause that clears model_components, and only it, on a failure
LifespanLogResets ==
    /\ startup_pc = "log"
    /\ startup_error' = MissingKey(The(model_metadata), StartupLogKeys(variant))
    /\ model_components' = IF IsNone(startup_error') THEN model_components ELSE None
    /\ startup_pc' = "serving"
    /\ UNCHANGED <<variant, disk, model_metadata, last, reqs>>

\* the logger.info lines; a KeyError in them goes to the same except clause
LifespanLog ==
    /\ startup_pc = "log"
    /\ startup_error' = MissingKey(The(model_metadata), StartupLogKeys(variant))
    /\ startup_pc' = "serving"
    /\ UNCHANGED <<variant, disk, model_components, model_metadata, last, reqs>>

-----------------------------------------------------------------------------
(* Handlers                                                                  *)

Serving == startup_pc = "serving"

\* POST /predict, from the request to the response
Predict(raw) ==
    /\ Serving
    /\ last' = IF Validate(variant, raw)
               THEN PredictResponse(predict_gdm(variant, ModelDump(variant, raw),
                                                model_components, model_metadata),
                                    model_metadata)
               ELSE ValidationResponse(raw)
    /\ model_components' = GlobalsAfterStage(variant, last'.ctx, model_components)
    /\ UNCHANGED <<variant, disk, startup_pc, startup_error, model_metadata, reqs>>

\* the response of GET /health
HealthResponse(v, mco, mdo) ==
    LET model_loaded == ~IsNone(mco)
        readsVersion == IF v = "extended" THEN model_loaded /\ ~IsNone(mdo)
                        ELSE ~IsNone(mdo)
    IN  IF readsVersion /\ IsNone(The(mdo).version)
        THEN [kind |-> "health", status |-> 500, detail |-> <<"'version'">>]
        ELSE [kind |-> "health", status |-> 200, detail |-> <<>>,
              body |-> [status |-> IF model_loaded THEN "healthy" ELSE "degraded",
                        model_loaded |-> model_loaded,
                        model_version |-> IF readsVersion THEN The(mdo).version
                                          ELSE None]]

health_check ==
    /\ Serving
    /\ last' = HealthResponse(variant, model_components, model_metadata)
    /\ UNCHANGED <<variant, disk, startup_pc, startup_error, model_components,
                   model_metadata, reqs>>

\* the metadata keys model_info() indexes without a default
ModelInfoKeys(v) ==
    IF v = "extended" THEN <<"version", "timestamp", "problem_type">>
    ELSE <<"version", "timestamp", "problem_type", "final_score", "score_metric",
           "feature_columns", "saved_models">>

\* the response of GET /model-info
ModelInfoResponse(v, mco, mdo) ==
    IF IsNone(mco) \/ IsNone(mdo)
    THEN [kind |-> "model_info", status |-> 503, detail |-> <<"Model not loaded">>]
    ELSE IF ~IsNone(MissingKey(The(mdo), ModelInfoKeys(v)))
    THEN [kind |-> "model_info", status |-> 500,
          detail |-> MissingKey(The(mdo), ModelInfoKeys(v))]
    ELSE [kind |-> "model_info", status |-> 200, detail |-> <<>>,
          body |-> [model_version |-> The(The(mdo).version),
                    problem_type |-> The(The(mdo).problem_type),
                    feature_columns |-> The(mdo).feature_columns,
                    saved_models |-> The(mdo).saved_models]]

model_info ==
    /\ Serving
    /\ last' = ModelInfoResponse(variant, model_components, model_metadata)
    /\ UNCHANGED <<variant, disk, startup_pc, startup_error, model_components,
                   model_metadata, reqs>>

\* what a caller of predict_gdm gets: the outcome dict, or the ValueError raised
CallResult(c) == [kind |-> "call", detail |-> c.cause, ctx |-> c]

\* predict_gdm(patient_data) called with a dict by code that imports the module:
\* no PatientData validation and no model_dump stand before it
Call(patient_data) ==
    /\ Serving
    /\ last' = CallResult(predict_gdm(variant, patient_data, model_components,
                                       model_metadata))
    /\ model_components' = GlobalsAfterStage(variant, last'.ctx, model_components)
    /\ UNCHANGED <<variant, disk, startup_pc, startup_error, model_metadata, reqs>>

-----------------------------------------------------------------------------
(* Requests clients send                                                     *)

RawOrder ==
    <<"Age", "No of Pregnancy", "Gestation in previous Pregnancy", "BMI", "OGTT",
      "HDL", "Family History", "unexplained prenetal loss",
      "Large Child or Birth Default", "PCOS", "Sys BP", "Dia BP", "Hemoglobin",
      "Sedentary Lifestyle", "Prediabetes">>

RawRecord(vals) ==
    FrameOf(RawOrder, [c \in SeqToSet(RawOrder) |->
                         Num(vals[CHOOSE i \in 1..Len(RawOrder) : RawOrder[i] = c])])

\* the record of test_high_risk
HighRiskRecord ==
    RawRecord(<<38000, 3000, 1000, 32500, 180000, 35000, 1000, 1000, 1000, 1000,
                145000, 95000, 10500, 1000, 1000>>)

\* the record of test_low_risk
LowRiskRecord ==
    RawRecord(<<25000, 1000, 0, 22500, 115000, 60000, 0, 0, 0, 0,
                110000, 70000, 12500, 0, 0>>)

With(rec, field, value) == SetCol(rec, field, Num(value))

Without(rec, field) ==
    FrameOf(SelectSeq(rec.cols, LAMBDA c : c # field), rec.cell)

BMIValues == {15000, 18499, 18500, 22500, 24999, 25000, 29999, 30000, 32500, 50000}
OGTTValues == {50000, 115000, 139000, 140000, 180000, 199000, 200000, 400000}
AgeValues == {15000, 25000, 34000, 35000, 36000, 60000}
PregnancyValues == {0, 2000, 3000}
PressureValues == {<<110000, 70000>>, <<139000, 89000>>, <<140000, 80000>>,
                   <<139000, 90000>>, <<145000, 95000>>}

\* one field of a base record varied over the boundary values of that field
Sweep(base) ==
    {With(base, "BMI", x) : x \in BMIValues}
    \cup {With(base, "OGTT", x) : x \in OGTTValues}
    \cup {With(base, "Age", x) : x \in AgeValues}
    \cup {With(base, "No of Pregnancy", x) : x \in PregnancyValues}
    \cup {With(base, "Family History", x) : x \in {0, 1000}}
    \cup {With(base, "PCOS", x) : x \in {0, 1000}}
    \cup {With(With(base, "Sys BP", bp[1]), "Dia BP", bp[2]) : bp \in PressureValues}

MarkerFields == <<"BMI", "OGTT", "Age", "Family History", "PCOS">>

RECURSIVE WithMarkers(_, _, _)
\* rec with the first n marker fields in S taken from the high-risk record
WithMarkers(rec, S, n) ==
    IF n = 0 THEN rec
    ELSE WithMarkers(IF MarkerFields[n] \in S
                     THEN SetCol(rec, MarkerFields[n], HighRiskRecord.cell[MarkerFields[n]])
                     ELSE rec,
                     S, n - 1)

\* the low-risk record with every subset of the five risk markers raised
MarkerRecords == {WithMarkers(LowRiskRecord, S, 5) : S \in SUBSET SeqToSet(MarkerFields)}

\* requests that PatientData rejects
InvalidRecords ==
    {With(With(LowRiskRecord, "Sys BP", 90000), "Dia BP", 90000),
     With(With(HighRiskRecord, "Sys BP", 80000), "Dia BP", 100000),
     With(LowRiskRecord, "Age", 61000),
     Without(LowRiskRecord, "HDL")}

\* diastolic at or above systolic, with one or both pressures outside their own
\* bounds or another field invalid or absent
CrossedPressureRecords ==
    {With(With(LowRiskRecord, "Sys BP", 60000), "Dia BP", 65000),
     With(With(LowRiskRecord, "Sys BP", 120000), "Dia BP", 135000),
     With(With(LowRiskRecord, "Sys BP", 250000), "Dia BP", 250000),
     With(With(LowRiskRecord, "Sys BP", 20000), "Dia BP", 30000),
     With(With(With(HighRiskRecord, "Sys BP", 95000), "Dia BP", 95000), "Age", 14000),
     Without(With(With(HighRiskRecord, "Sys BP", 70000), "Dia BP", 130000), "BMI"),
     With(With(HighRiskRecord, "Sys BP", 129000), "Dia BP", 130000)}

\* the low-risk record with zero to five of the risk markers raised
CountRecords ==
    {WithMarkers(LowRiskRecord, S, 5) :
        S \in {{}, {"BMI"}, {"OGTT"}, {"Age"}, {"Family History"}, {"PCOS"},
               {"BMI", "OGTT"}, {"Age", "PCOS"}, {"BMI", "OGTT", "Age"},
               {"OGTT", "Family History", "PCOS"},
               {"BMI", "OGTT", "Age", "Family History"},
               {"BMI", "OGTT", "Age", "Family History", "PCOS"}}}

\* rec without the fields of S
Dropping(rec, S) == FrameOf(SelectSeq(rec.cols, LAMBDA c : c \notin S), rec.cell)

\* the raw fields the Feature Engineer reads
FESources ==
    {"Age", "No of Pregnancy", "BMI", "OGTT", "Sys BP", "Dia BP", "Family History",
     "PCOS"}

\* dicts handed to predict_gdm directly: the fields the Feature Engineer reads
\* absent in every combination of six of them and one by one for the rest,
\* fields with alignment defaults absent, textual values inside and outside the
\* encoders' vocabularies, a PCOS code never trained on
DirectRecords ==
    {Dropping(HighRiskRecord, S) :
        S \in SUBSET {"Age", "No of Pregnancy", "BMI", "OGTT", "Dia BP", "PCOS"}}
    \cup {Dropping(LowRiskRecord, S) :
            S \in {{}, {"Sys BP"}, {"Family History"}, {"Family History", "PCOS"},
                   {"Sys BP", "Dia BP"}, FESources}}
    \cup {Dropping(HighRiskRecord, {"HDL", "Hemoglobin"}),
          Dropping(LowRiskRecord, {"HDL", "Hemoglobin", "Age", "BMI", "OGTT"}),
          SetCol(LowRiskRecord, "Ethnicity", Cat("asian")),
          SetCol(LowRiskRecord, "Ethnicity", Cat("european")),
          SetCol(HighRiskRecord, "Ethnicity", Cat("martian")),
          SetCol(With(LowRiskRecord, "PCOS", 2000), "Ethnicity", Cat("european")),
          With(LowRiskRecord, "OGTT", 250000),
          With(HighRiskRecord, "BMI", 55000)}

-----------------------------------------------------------------------------
(* Bundle directories the process is started on                              *)

Variants == {"extended", "legacy"}

FeatureColumns(v) ==
    IF v = "extended"
    THEN <<"Age", "BMI", "OGTT", "BMI_Category", "OGTT_Category", "BMI_Risk_Score",
           "Comprehensive_Risk_Score", "Hypertensive", "Genetic_Risk", "Hemoglobin">>
    ELSE <<"Case Number", "Age", "BMI", "OGTT", "HDL", "PCOS", "Sys BP">>

LabelEncoders(v) ==
    IF v = "extended"
    THEN <<[col |-> "BMI_Category",
            classes |-> <<"Normal", "Obese", "Overweight", "Underweight">>],
           [col |-> "OGTT_Category", classes |-> <<"Impaired", "Normal">>]>>
    ELSE <<[col |-> "PCOS", classes |-> <<"0", "1">>]>>

Preprocessing(v, threshold) ==
    [label_encoders |-> Some(LabelEncoders(v)),
     feature_columns |-> Some(FeatureColumns(v)),
     scaler |-> Some([n_features_in |-> Len(FeatureColumns(v)),
                      mean |-> 20000, scale |-> 2000]),
     optimal_threshold |-> threshold]

BaseModel(kind, col, cut, out) ==
    [name |-> "", kind |-> kind, col |-> col, cut |-> cut, out |-> out]

Ens(n, value, follow, p_lo, p_hi, proba) ==
    [name |-> "", kind |-> "meta", n_features_in |-> n, value |-> value,
     follow |-> follow, p_lo |-> p_lo, p_hi |-> p_hi, proba |-> proba]

File(filename, model) == [filename |-> filename, model |-> model]

\* two base models and the meta-model, as the training run saved them
Files(v, ens) ==
    <<File("RandomForest.pkl",
           IF v = "extended" THEN BaseModel("rule", "OGTT", 60000, 0)
           ELSE BaseModel("rule", "Age", 35000, 0)),
      File("XGBoost.pkl", BaseModel("rule", "Hemoglobin", -4000, 0)),
      File("Ensemble.pkl", ens)>>

SavedModels ==
    <<[name |-> "RandomForest", filename |-> "RandomForest.pkl"],
      [name |-> "XGBoost", filename |-> "XGBoost.pkl"],
      [name |-> "Ensemble", filename |-> "Ensemble.pkl"]>>

Metadata(v, problem_type, saved_models) ==
    [version |-> Some("v2"), timestamp |-> Some("20240101"),
     problem_type |-> Some(problem_type),
     final_score |-> Some(900), score_metric |-> Some("f1"),
     saved_models |-> Some(saved_models),
     feature_columns |-> Some(FeatureColumns(v))]

\* a complete bundle
GoodDisk(v, threshold, ens) ==
    [latest_exists |-> TRUE,
     metadata |-> Some(Metadata(v, "classification", SavedModels)),
     preprocessing |-> Some(Preprocessing(v, threshold)),
     files |-> Files(v, ens)]

Probabilities == {0, 299, 300, 399, 400, 500, 599, 600, 699, 700, 1000}
Thresholds == {None, Some(300), Some(700)}

\* meta-models that answer one probability whatever the base models say
ConstantEnsembles ==
    {Ens(2, value, FALSE, p, p, "two") : value \in {0, 1000}, p \in Probabilities}

\* meta-models that follow the base models, lack predict_proba, answer a
\* one-entry probability vector, or predict a class outside {0, 1}
OtherEnsembles ==
    {Ens(2, 0, TRUE, 200, 800, "two"), Ens(2, 0, TRUE, 0, 0, "raises"),
     Ens(2, 1000, FALSE, 0, 0, "raises"), Ens(2, 1000, FALSE, 650, 650, "one"),
     Ens(2, 0, FALSE, 650, 650, "one"), Ens(2, 2000, FALSE, 500, 500, "two"),
     Ens(3, 1000, FALSE, 500, 500, "two")}

StandardEnsemble == Ens(2, 0, TRUE, 200, 800, "two")

\* what a regressor saved as the meta-model answers: values between, at and
\* beyond the two classes
RegressionValues == {-100, 0, 299, 300, 500, 501, 599, 600, 1000, 1200}

\* a complete bundle of a regression run: the meta-model has no predict_proba
RegressionDisk(v, value) ==
    [latest_exists |-> TRUE,
     metadata |-> Some(Metadata(v, "regression", SavedModels)),
     preprocessing |-> Some(Preprocessing(v, None)),
     files |-> Files(v, Ens(2, value, FALSE, 0, 0, "raises"))]

StandardDisk(v) == GoodDisk(v, None, StandardEnsemble)

\* bundles that fail to load, or load with parts missing
DamagedDisks(v) ==
    LET g == StandardDisk(v)
        md == The(g.metadata)
        pre == The(g.preprocessing)
    IN  {[g EXCEPT !.latest_exists = FALSE],
         [g EXCEPT !.metadata = None],
         [g EXCEPT !.preprocessing = None],
         [g EXCEPT !.files = SubSeq(g.files, 1, 2)],
         [g EXCEPT !.metadata = Some([md EXCEPT !.saved_models = None])],
         [g EXCEPT !.metadata = Some([md EXCEPT !.version = None])],
         [g EXCEPT !.metadata = Some([md EXCEPT !.problem_type = None])],
         [g EXCEPT !.metadata = Some([md EXCEPT !.final_score = None])],
         [g EXCEPT !.metadata = Some([md EXCEPT !.timestamp = None])],
         [g EXCEPT !.metadata = Some([md EXCEPT !.problem_type = Some("regression")]),
                   !.files = Files(v, Ens(2, 700, FALSE, 0, 0, "raises"))],
         [g EXCEPT !.metadata = Some([md EXCEPT !.saved_models =
                                          Some(SubSeq(SavedModels, 1, 2))])],
         [g EXCEPT !.metadata = Some([md EXCEPT !.saved_models =
                                          Some(SubSeq(SavedModels, 3, 3))])],
         [g EXCEPT !.metadata = Some([md EXCEPT !.saved_models = Some(<<>>)])],
         [g EXCEPT !.metadata = Some([md EXCEPT !.saved_models =
                                          Some(<<SavedModels[3], SavedModels[1],
                                                 SavedModels[2]>>)])],
         [g EXCEPT !.metadata = Some([md EXCEPT !.saved_models =
                                          Some(<<SavedModels[1], SavedModels[3],
                                                 SavedModels[2]>>)]),
                   !.files = <<File("RandomForest.pkl", BaseModel("const", "", 0, 1000)),
                               File("XGBoost.pkl", BaseModel("raises", "", 0, 0)),
                               File("Ensemble.pkl", StandardEnsemble)>>],
         [g EXCEPT !.files = <<File("RandomForest.pkl", BaseModel("raises", "", 0, 0)),
                               File("XGBoost.pkl", BaseModel("raises", "", 0, 0)),
                               File("Ensemble.pkl", StandardEnsemble)>>],
         [g EXCEPT !.preprocessing = Some([pre EXCEPT !.feature_columns = None])],
         [g EXCEPT !.preprocessing = Some([pre EXCEPT !.scaler = None])],
         [g EXCEPT !.preprocessing = Some([pre EXCEPT !.label_encoders = None])],
         [g EXCEPT !.files = <<File("RandomForest.pkl", BaseModel("raises", "", 0, 0)),
                               File("XGBoost.pkl", BaseModel("const", "", 0, 1000)),
                               File("Ensemble.pkl", StandardEnsemble)>>]}

\* a bundle trained on more columns: raw fields, derived columns, columns the
\* service never receives, and an encoder for a textual raw column
PipeFeatureColumns(v) ==
    IF v = "extended"
    THEN <<"Hemoglobin", "Age", "BMI", "OGTT", "HDL", "Sys BP", "Ethnicity",
           "BMI_Category", "OGTT_Category", "BMI_Risk_Score",
           "Comprehensive_Risk_Score", "Diet_Score", "Genetic_Risk">>
    ELSE <<"Case Number", "Age", "BMI", "OGTT", "HDL", "PCOS", "Ethnicity">>

PipeLabelEncoders(v) ==
    LabelEncoders(v) \o <<[col |-> "Ethnicity", classes |-> <<"asian", "european">>]>>

PipeDisk(v) ==
    [StandardDisk(v) EXCEPT
        !.preprocessing =
            Some([label_encoders |-> Some(PipeLabelEncoders(v)),
                  feature_columns |-> Some(PipeFeatureColumns(v)),
                  scaler |-> Some([n_features_in |-> Len(PipeFeatureColumns(v)),
                                   mean |-> 20000, scale |-> 2000]),
                  optimal_threshold |-> None])]

-----------------------------------------------------------------------------
(* Requests served stage by stage                                            *)

MaxRequests == 2

Slots == 1..MaxRequests

Idle == [NewCtx(EmptyFrame) EXCEPT !.pc = "idle"]

\* a request arrives: validation, model_dump, and predict_gdm is entered
Receive(i, raw) ==
    /\ Serving
    /\ reqs[i].pc = "idle"
    /\ reqs' = [reqs EXCEPT ![i] = IF Validate(variant, raw)
                                   THEN NewCtx(ModelDump(variant, raw))
                                   ELSE [NewCtx(raw) EXCEPT !.pc = "rejected"]]
    /\ UNCHANGED <<variant, disk, startup_pc, startup_error, model_components,
                   model_metadata, last>>

\* the next stage of request i runs, whatever the other requests are doing
Step(i) ==
    /\ Serving
    /\ reqs[i].pc \notin {"idle", "rejected", "done", "failed"}
    /\ reqs' = [reqs EXCEPT ![i] = StageStep(variant, reqs[i], model_components,
                                             model_metadata)]
    /\ model_components' = GlobalsAfterStage(variant, reqs'[i], model_components)
    /\ UNCHANGED <<variant, disk, startup_pc, startup_error, model_metadata, last>>

\* the response of request i is sent
Respond(i) ==
    /\ Serving
    /\ reqs[i].pc \in {"rejected", "done", "failed"}
    /\ last' = IF reqs[i].pc = "rejected" THEN ValidationResponse(reqs[i].patient_data)
               ELSE PredictResponse(reqs[i], model_metadata)
    /\ reqs' = [reqs EXCEPT ![i] = Idle]
    /\ UNCHANGED <<variant, disk, startup_pc, startup_error, model_components,
                   model_metadata>>

-----------------------------------------------------------------------------
(* Specifications                                                            *)

NoResponse == [kind |-> "none", status |-> 0, detail |-> <<>>]

InitOn(Disks) ==
    /\ variant \in Variants
    /\ disk \in Disks[variant]
    /\ startup_pc = "load"
    /\ startup_error = None
    /\ model_components = None
    /\ model_metadata = None
    /\ last = NoResponse
    /\ reqs = [i \in Slots |-> Idle]

Lifespan == LifespanLoad \/ LifespanAssign \/ LifespanLog

\* the whole service on complete and damaged bundles, one handler at a time
ServiceDisks(v) ==
    DamagedDisks(v) \cup {StandardDisk(v), GoodDisk(v, Some(700), StandardEnsemble)}
ServiceRequests ==
    {HighRiskRecord, LowRiskRecord} \cup InvalidRecords \cup CrossedPressureRecords
Init == InitOn([v \in Variants |-> ServiceDisks(v)])
Next ==
    \/ Lifespan
    \/ \E raw \in ServiceRequests : Predict(raw)
    \/ health_check
    \/ model_info
Spec == Init /\ [][Next]_vars

\* the risk interpreter over every probability, threshold and marker count
RiskDisks(v) ==
    {GoodDisk(v, th, ens) : th \in Thresholds, ens \in ConstantEnsembles \cup OtherEnsembles}
    \cup {RegressionDisk(v, value) : value \in RegressionValues}
RiskRequests == CountRecords \cup {HighRiskRecord}
InitRisk == InitOn([v \in Variants |-> RiskDisks(v)])
NextRisk ==
    \/ Lifespan
    \/ \E raw \in RiskRequests : Predict(raw)
SpecRisk == InitRisk /\ [][NextRisk]_vars

\* the feature engineer over the boundary values of every source field
FEDisks(v) == {StandardDisk(v), GoodDisk(v, Some(300), Ens(2, 1000, FALSE, 300, 300, "one"))}
FERequests == Sweep(HighRiskRecord) \cup Sweep(LowRiskRecord) \cup MarkerRecords
InitFE == InitOn([v \in Variants |-> FEDisks(v)])
NextFE ==
    \/ Lifespan
    \/ \E raw \in FERequests : Predict(raw)
SpecFE == InitFE /\ [][NextFE]_vars

\* requests whose stages interleave
ConcDisks(v) == {StandardDisk(v), GoodDisk(v, Some(700), Ens(2, 1000, FALSE, 700, 700, "two"))}
ConcRequests ==
    {HighRiskRecord, LowRiskRecord,
     With(With(LowRiskRecord, "Sys BP", 90000), "Dia BP", 90000)}
InitConc == InitOn([v \in Variants |-> ConcDisks(v)])
NextConc ==
    \/ Lifespan
    \/ \E i \in Slots, raw \in ConcRequests : Receive(i, raw)
    \/ \E i \in Slots : Step(i)
    \/ \E i \in Slots : Respond(i)
SpecConc == InitConc /\ [][NextConc]_vars

\* predict_gdm called directly, on records with fields absent
PipeDisks(v) == {StandardDisk(v), PipeDisk(v)}
PipeRequests == DirectRecords
InitPipe == InitOn([v \in Variants |-> PipeDisks(v)])
NextPipe ==
    \/ Lifespan
    \/ \E patient_data \in PipeRequests : Call(patient_data)
SpecPipe == InitPipe /\ [][NextPipe]_vars

-----------------------------------------------------------------------------
(* Properties                                                                *)

Answered(kind) == Serving /\ last.kind = kind

\* a /predict request that passed validation and was answered
Predicted == Answered("predict") /\ last.status # 422

\* a successful prediction of the extended variant
ExtendedSuccess == variant = "extended" /\ Answered("predict") /\ last.status = 200

\* C1: while no model bundle is loaded, a prediction request that reaches
\* predict_gdm is rejected with the cause "Model not loaded" before any pipeline
\* stage has run, /health answers status "degraded" with model_loaded false, and
\* /model-info fails with 503 (service unavailable).
C1_NoModelLoaded ==
    (Serving /\ IsNone(model_components)) =>
        /\ Predicted =>
              /\ last.status = 500
              /\ last.detail = <<"Prediction failed", "Model not loaded">>
              /\ last.ctx.stages = <<>>
              /\ IsNone(last.ctx.outcome)
        /\ Answered("health") =>
              /\ last.status = 200
              /\ last.body.status = "degraded"
              /\ last.body.model_loaded = FALSE
        /\ Answered("model_info") => last.status = 503

C1_Witness ==
    /\ Serving /\ IsNone(model_components)
    /\ Predicted
    /\ last.ctx.patient_data = ModelDump(variant, HighRiskRecord)

\* C2: whenever the startup block of lifespan() raised (the exception it caught
\* is recorded), startup ends in degraded mode: no model is loaded, a prediction
\* request is rejected with the cause "Model not loaded" and /health answers
\* "degraded".
C2_StartupFailureDegrades ==
    (Serving /\ ~IsNone(startup_error)) =>
        /\ IsNone(model_components)
        /\ Predicted => last.detail = <<"Prediction failed", "Model not loaded">>
        /\ Answered("health") => (last.status = 200 /\ last.body.status = "degraded")

\* the state loaded from the bundle directory at startup
LoadedComponents == load_latest_model(disk).components
LoadedMetadata ==
    IF IsNone(LoadedComponents) THEN None ELSE Some(The(LoadedComponents).metadata)

\* C3: once startup has completed, no step of any request changes the globals
\* (metadata, preprocessing state, model set), and a request that finishes among
\* arbitrarily interleaved other requests ends exactly as predict_gdm run alone
\* on its record against the state loaded at startup.
C3_RequestsIndependent ==
    [][Serving =>
          /\ model_components' = model_components
          /\ model_metadata' = model_metadata
          /\ \A i \in Slots :
                Finished(reqs'[i]) =>
                    reqs'[i] = predict_gdm(variant, reqs'[i].patient_data,
                                           LoadedComponents, LoadedMetadata)]_vars

C3_Witness ==
    /\ reqs[1].pc = "done"
    /\ reqs[2].pc = "align"
    /\ reqs[1].patient_data # reqs[2].patient_data
    /\ reqs[1].outcome # None

\* C4: in the extended variant a successful prediction is labelled "GDM" exactly
\* when gdm_probability >= optimal_threshold of the preprocessing state (0.5 when
\* the state has none), whatever class the meta-model predicted.
C4_ThresholdLabel ==
    ExtendedSuccess =>
        LET th == The(model_components).preprocessing.optimal_threshold
            t == IF th = None THEN 500 ELSE th[1]
        IN  (last.outcome.prediction = "GDM") <=> (last.outcome.gdm_probability >= t)

\* probability equal to the threshold, meta-model class 0, label GDM
C4_Witness ==
    /\ ExtendedSuccess
    /\ The(model_components).preprocessing.optimal_threshold = Some(700)
    /\ last.outcome.gdm_probability = 700
    /\ last.ctx.predictions = <<0>>
    /\ last.outcome.prediction = "GDM"

\* the risk markers that hold of a raw record
MarkersOf(d) ==
    {m \in {"BMI", "OGTT", "Age", "Family History", "PCOS"} :
        /\ HasCol(d, m)
        /\ \/ m = "BMI" /\ d.cell[m].n >= 30000
           \/ m = "OGTT" /\ d.cell[m].n >= 140000
           \/ m = "Age" /\ d.cell[m].n >= 35000
           \/ m = "Family History" /\ d.cell[m].n = 1000
           \/ m = "PCOS" /\ d.cell[m].n = 1000}

\* C5: in the extended variant, with c the number of risk markers of the raw
\* record, risk_category is High Risk iff p >= 0.7 or c >= 3, otherwise Moderate
\* Risk iff p >= 0.4 or c >= 2, otherwise Low Risk.
C5_RiskCategory ==
    ExtendedSuccess =>
        LET c == Cardinality(MarkersOf(last.ctx.patient_data))
            p == last.outcome.gdm_probability
            risk == last.outcome.risk_category
            high == p >= 700 \/ c >= 3
            moderate == p >= 400 \/ c >= 2
        IN  /\ (risk = "High Risk") <=> high
            /\ (risk = "Moderate Risk") <=> (~high /\ moderate)
            /\ (risk = "Low Risk") <=> (~high /\ ~moderate)

\* the markers alone lift a low probability to Moderate Risk
C5_Witness ==
    /\ ExtendedSuccess
    /\ last.outcome.gdm_probability = 399
    /\ Cardinality(MarkersOf(last.ctx.patient_data)) = 2
    /\ last.outcome.risk_category = "Moderate Risk"

\* the template the spec keys to a risk category
TemplateOf(risk_category) ==
    IF risk_category = "High Risk" THEN HighTemplate
    ELSE IF risk_category = "Moderate Risk" THEN ModerateTemplate
    ELSE LowTemplate

\* C6 as stated: the recommendation template of a successful extended prediction
\* is the one keyed to its risk_category, whatever the label and the threshold.
C6_TemplateByRiskAlone ==
    ExtendedSuccess =>
        last.outcome.clinical_recommendations = TemplateOf(last.outcome.risk_category)

\* C6 as amended: the template is determined by the label and the risk_category:
\* the immediate-consultation template iff the label is GDM or the category is
\* High Risk, otherwise the follow-up template iff Moderate Risk, otherwise the
\* routine-care template.
C6_TemplateByLabelAndRisk ==
    ExtendedSuccess =>
        LET t == last.outcome.clinical_recommendations
            gdm == last.outcome.prediction = "GDM"
            risk == last.outcome.risk_category
        IN  /\ t \in {HighTemplate, ModerateTemplate, LowTemplate}
            /\ (t = HighTemplate) <=> (gdm \/ risk = "High Risk")
            /\ (t = ModerateTemplate) <=> (~gdm /\ risk = "Moderate Risk")
            /\ (t = LowTemplate) <=> (~gdm /\ risk = "Low Risk")

\* a Low Risk prediction labelled GDM carries the immediate-consultation template
C6_Witness ==
    /\ ExtendedSuccess
    /\ last.outcome.risk_category = "Low Risk"
    /\ last.outcome.prediction = "GDM"
    /\ last.outcome.clinical_recommendations = HighTemplate

ScenarioB == ExtendedSuccess /\ last.ctx.patient_data = ModelDump("extended", LowRiskRecord)

\* C7 as stated: every successful extended prediction for the scenario-B record
\* has risk_category "Low Risk" and risk_factors.obesity false, for any model
\* set and any probability.
C7_ScenarioBAlwaysLow ==
    ScenarioB =>
        /\ last.outcome.risk_category = "Low Risk"
        /\ last.outcome.risk_factors.obesity = FALSE

\* C7 as amended: for the scenario-B record risk_factors.obesity is false and the
\* category follows the probability alone: Low Risk iff p < 0.4, Moderate Risk
\* iff 0.4 <= p < 0.7, High Risk iff p >= 0.7.
C7_ScenarioBByProbability ==
    ScenarioB =>
        LET p == last.outcome.gdm_probability
            risk == last.outcome.risk_category
        IN  /\ last.outcome.risk_factors.obesity = FALSE
            /\ (risk = "Low Risk") <=> (p < 400)
            /\ (risk = "Moderate Risk") <=> (400 <= p /\ p < 700)
            /\ (risk = "High Risk") <=> (p >= 700)

C7_Witness ==
    /\ ScenarioB
    /\ last.outcome.gdm_probability = 700
    /\ last.outcome.risk_category = "High Risk"
    /\ last.outcome.risk_factors.obesity = FALSE

\* a prediction of the extended variant whose feature engineering completed
Engineered ==
    /\ variant = "extended" /\ Answered("predict")
    /\ "feature_engineering" \in SeqToSet(last.ctx.stages)
    /\ ~last.ctx.fe_raised

\* C8: for BMI in [15, 50], BMI_Category is Underweight iff BMI < 18.5, Normal iff
\* 18.5 <= BMI < 25, Overweight iff 25 <= BMI < 30, Obese iff 30 <= BMI <= 50, and
\* BMI_Risk_Score is 1/0/2/4 on the same four buckets.
C8_BMIBuckets ==
    Engineered =>
        LET bmi == last.ctx.data.cell["BMI"].n
            cat == last.ctx.enhanced.cell["BMI_Category"]
            score == last.ctx.enhanced.cell["BMI_Risk_Score"].n
            bucket == IF bmi < 18500 THEN <<"Underweight", 1000>>
                      ELSE IF bmi < 25000 THEN <<"Normal", 0>>
                      ELSE IF bmi < 30000 THEN <<"Overweight", 2000>>
                      ELSE <<"Obese", 4000>>
        IN  cat.k = "cat" /\ cat.s = bucket[1] /\ score = bucket[2]

\* C9: for OGTT in [50, 400], OGTT_Category is Normal iff OGTT < 140, Impaired iff
\* 140 <= OGTT < 200, Diabetic iff OGTT >= 200, and OGTT_Risk_Score is 0/3/5 on
\* the same three buckets.
C9_OGTTBuckets ==
    Engineered =>
        LET ogtt == last.ctx.data.cell["OGTT"].n
            cat == last.ctx.enhanced.cell["OGTT_Category"]
            score == last.ctx.enhanced.cell["OGTT_Risk_Score"].n
            bucket == IF ogtt < 140000 THEN <<"Normal", 0>>
                      ELSE IF ogtt < 200000 THEN <<"Impaired", 3000>>
                      ELSE <<"Diabetic", 5000>>
        IN  cat.k = "cat" /\ cat.s = bucket[1] /\ score = bucket[2]

\* C10: with every source field present, twice Comprehensive_Risk_Score equals
\* 4*OGTT_Risk_Score + 3*BMI_Risk_Score + 4*[Age > 35] + 4*FamilyHistory + 5*PCOS
\* + 2*[No of Pregnancy > 2] + 3*Hypertensive, and Hypertensive is 1 iff
\* Sys BP >= 140 or Dia BP >= 90.
C10_ComprehensiveRiskScore ==
    Engineered =>
        LET raw == last.ctx.data.cell
            e == last.ctx.enhanced.cell
        IN  /\ (e["Hypertensive"].n = 1000)
                   <=> (raw["Sys BP"].n >= 140000 \/ raw["Dia BP"].n >= 90000)
            /\ e["Hypertensive"].n \in {0, 1000}
            /\ 2 * e["Comprehensive_Risk_Score"].n =
                     4 * e["OGTT_Risk_Score"].n
                   + 3 * e["BMI_Risk_Score"].n
                   + 4 * (IF raw["Age"].n > 35000 THEN 1000 ELSE 0)
                   + 4 * raw["Family History"].n
                   + 5 * raw["PCOS"].n
                   + 2 * (IF raw["No of Pregnancy"].n > 2000 THEN 1000 ELSE 0)
                   + 3 * e["Hypertensive"].n

\* age exactly 35 adds nothing, the other terms of the high-risk record all count
C10_Witness ==
    /\ Engineered
    /\ last.ctx.data.cell["Age"].n = 35000
    /\ last.ctx.enhanced.cell["Comprehensive_Risk_Score"].n = 19000

\* a direct call of the extended variant that reached the Feature Engineer
Called == variant = "extended" /\ Answered("call")
          /\ "feature_engineering" \in SeqToSet(last.ctx.stages)

\* the derived columns with the raw fields each one is computed from
DerivedColumns ==
    <<[col |-> "BMI_Category", sources |-> {"BMI"}],
      [col |-> "BMI_Risk_Score", sources |-> {"BMI"}],
      [col |-> "OGTT_Category", sources |-> {"OGTT"}],
      [col |-> "OGTT_Risk_Score", sources |-> {"OGTT"}],
      [col |-> "BMI_OGTT_Risk", sources |-> {"BMI", "OGTT"}],
      [col |-> "Age_BMI_Interaction", sources |-> {"Age", "BMI"}],
      [col |-> "BP_Ratio", sources |-> {"Sys BP", "Dia BP"}],
      [col |-> "Pulse_Pressure", sources |-> {"Sys BP", "Dia BP"}],
      [col |-> "Mean_Arterial_Pressure", sources |-> {"Sys BP", "Dia BP"}],
      [col |-> "Hypertensive", sources |-> {"Sys BP", "Dia BP"}],
      [col |-> "Comprehensive_Risk_Score", sources |-> {}],
      [col |-> "High_Risk_BMI", sources |-> {"BMI"}],
      [col |-> "High_Risk_OGTT", sources |-> {"OGTT"}],
      [col |-> "Advanced_Age", sources |-> {"Age"}],
      [col |-> "BMI_log", sources |-> {"BMI"}],
      [col |-> "OGTT_log", sources |-> {"OGTT"}]>>

\* C11: whatever raw fields are absent from the record (Age and No of Pregnancy
\* included), the Feature Engineer does not raise, produces exactly the derived
\* columns whose sources are all present, and counts the term of an absent field
\* in Comprehensive_Risk_Score as 0.
C11_AbsentFieldsSkipped ==
    Called =>
        LET d == last.ctx.data
            e == last.ctx.enhanced
            term(c, w) == IF HasCol(d, c) THEN w ELSE 0
        IN  /\ ~last.ctx.fe_raised
            /\ \A i \in 1..Len(DerivedColumns) :
                   HasCol(e, DerivedColumns[i].col)
                       <=> (DerivedColumns[i].sources \subseteq DOMAIN d.cell)
            /\ 2 * e.cell["Comprehensive_Risk_Score"].n =
                     term("OGTT", 4 * OGTT_Risk_Score(Get(d, "OGTT", 0)) * 1000)
                   + term("BMI", 3 * BMI_Risk_Score(Get(d, "BMI", 0)) * 1000)
                   + term("Age", 4 * B2I(Get(d, "Age", 0) > 35000) * 1000)
                   + 4 * Get(d, "Family History", 0)
                   + 5 * Get(d, "PCOS", 0)
                   + term("No of Pregnancy", 2 * B2I(Get(d, "No of Pregnancy", 0) > 2000) * 1000)
                   + (IF HasCol(d, "Sys BP") /\ HasCol(d, "Dia BP")
                      THEN 3 * Hypertensive(d.cell["Sys BP"].n, d.cell["Dia BP"].n) * 1000
                      ELSE 0)

\* the frame the encoding loop starts from
EncoderInput(c) == IF variant = "extended" THEN c.enhanced ELSE c.data

\* the columns the encoding loop transforms: in the legacy variant every column
\* with a registered encoder, in the extended variant those holding text or a
\* category
Categorical(c, col) ==
    /\ HasCol(EncoderInput(c), col)
    /\ variant = "extended" => EncoderInput(c).cell[col].k \in {"cat", "nan"}

\* C12: in both variants, a categorical column with a registered encoder whose
\* value is outside the encoder's vocabulary is given code 0; encoding does not
\* fail the request, and the pipeline goes on to alignment.
C12_UnknownCategoryIsZero ==
    (Answered("call") /\ "encoding" \in SeqToSet(last.ctx.stages)) =>
        LET c == last.ctx
            encoders == The(The(model_components).preprocessing.label_encoders)
        IN  \A i \in 1..Len(encoders) :
               (/\ Categorical(c, encoders[i].col)
                /\ Str(EncoderInput(c).cell[encoders[i].col])
                       \notin SeqToSet(encoders[i].classes))
               => /\ c.processed.cell[encoders[i].col] = Num(0)
                  /\ "alignment" \in SeqToSet(c.stages)

\* a value no encoder was trained on, in a column whose encoder has no code 0
\* to spare: "martian" becomes 0, the code of "asian"
C12_Witness ==
    /\ Answered("call")
    /\ HasCol(last.ctx.patient_data, "Ethnicity")
    /\ last.ctx.patient_data.cell["Ethnicity"] = Cat("martian")
    /\ last.ctx.processed.cell["Ethnicity"] = Num(0)
    /\ "alignment" \in SeqToSet(last.ctx.stages)
    /\ last.ctx.pc = "done"

\* C13: a request whose record has Dia BP >= Sys BP is rejected by validation
\* whatever its other fields hold: it is answered 422, predict_gdm is not
\* entered and no pipeline stage runs for it.
C13_CrossedPressureRejected ==
    (/\ Answered("predict")
     /\ HasCol(last.ctx.patient_data, "Sys BP") /\ HasCol(last.ctx.patient_data, "Dia BP")
     /\ last.ctx.patient_data.cell["Dia BP"].n >= last.ctx.patient_data.cell["Sys BP"].n)
    => /\ last.status = 422
       /\ last.ctx.pc = "start"
       /\ last.ctx.stages = <<>>
       /\ IsNone(last.ctx.outcome)

\* equal pressures, every field inside its own bounds, a model loaded
C13_Witness ==
    /\ Answered("predict")
    /\ ~IsNone(model_components)
    /\ last.ctx.patient_data = With(With(LowRiskRecord, "Sys BP", 90000), "Dia BP", 90000)
    /\ last.status = 422

\* a successful prediction of either variant
Success == Answered("predict") /\ last.status = 200

\* C14: in every successful prediction of either variant gdm_probability and
\* non_gdm_probability both lie in [0, 1] and sum to 1, whatever the shape of the
\* probability vector and the problem_type.
C14_ProbabilitiesInRangeSumToOne ==
    Success =>
        /\ 0 <= last.outcome.gdm_probability /\ last.outcome.gdm_probability <= Fx(1)
        /\ 0 <= last.outcome.non_gdm_probability
        /\ last.outcome.non_gdm_probability <= Fx(1)
        /\ last.outcome.gdm_probability + last.outcome.non_gdm_probability = Fx(1)

\* C15: a run of predict_gdm leaves the loaded state as it found it, and running
\* it again on the dict the first run was given (as the first run left it, with
\* the legacy defaults written into it) ends exactly as the first did: same
\* label, probabilities, risk_category, confidence, risk_factors,
\* recommendations, or the same failure.
C15_Idempotent ==
    [][(Serving /\ last'.kind = "call") =>
          /\ model_components' = model_components
          /\ model_metadata' = model_metadata
          /\ LET again == predict_gdm(variant, last'.ctx.patient_data,
                                      model_components', model_metadata')
             IN  /\ again.pc = last'.ctx.pc
                 /\ again.outcome = last'.ctx.outcome
                 /\ again.cause = last'.ctx.cause
                 /\ again.patient_data = last'.ctx.patient_data]_vars

\* a legacy run that wrote the BMI default into the dict and returned an outcome
C15_Witness ==
    /\ variant = "legacy" /\ Answered("call")
    /\ last.ctx.pc = "done"
    /\ ~IsNone(last.ctx.outcome)
    /\ last.ctx.patient_data.cell["BMI"] = Num(Fx(22))
    /\ last.ctx.patient_data.cell["Case Number"] = Num(0)

\* the base models of a model set: every entry but "Ensemble"
BaseModels(models) == SelectSeq(models, LAMBDA m : m.name # "Ensemble")

\* the failure of a request stayed with the request: the loaded state is the
\* one startup left, the process serves, and the same record run against the
\* complete model set of the standard bundle succeeds
OnlyTheRequestFailed ==
    /\ last.status = 500
    /\ IsNone(last.ctx.outcome)
    /\ Serving
    /\ model_components = LoadedComponents
    /\ model_metadata = LoadedMetadata
    /\ predict_gdm(variant, ModelDump(variant, last.ctx.patient_data),
                   load_latest_model(StandardDisk(variant)).components,
                   Some(The(StandardDisk(variant).metadata))).pc = "done"

\* C16 as stated: a request against a model set without "Ensemble" fails with
\* the no-ensemble-model cause, one against a model set without base models
\* fails with the no-base-models cause, and in both cases only that request
\* fails.
C16_MissingModelsFailTheRequest ==
    (Predicted /\ ~IsNone(model_components)) =>
        LET models == The(model_components).models
        IN  /\ ~HasModel(models, "Ensemble") =>
                  /\ last.ctx.cause = Wrapped("'Ensemble'")
                  /\ OnlyTheRequestFailed
            /\ BaseModels(models) = <<>> =>
                  /\ last.ctx.cause = Wrapped("No individual models available for prediction")
                  /\ OnlyTheRequestFailed

\* C16 as amended: the base models are looked at first. A model set with no
\* base model fails the request with the no-base-models cause whether or not
\* it holds "Ensemble"; a model set with at least one base model and no
\* "Ensemble" fails it with the no-ensemble-model cause. In both cases only
\* that request fails.
C16_BaseModelsCheckedFirst ==
    (Predicted /\ ~IsNone(model_components)) =>
        LET models == The(model_components).models
        IN  /\ (~HasModel(models, "Ensemble") /\ BaseModels(models) # <<>>) =>
                  /\ last.ctx.cause = Wrapped("'Ensemble'")
                  /\ OnlyTheRequestFailed
            /\ BaseModels(models) = <<>> =>
                  /\ last.ctx.cause = Wrapped("No individual models available for prediction")
                  /\ OnlyTheRequestFailed

\* both base models answered, and the request failed for the missing meta-model
C16_Witness ==
    /\ Predicted /\ ~IsNone(model_components)
    /\ ~HasModel(The(model_components).models, "Ensemble")
    /\ Len(last.ctx.stacked) = 2
    /\ last.ctx.cause = Wrapped("'Ensemble'")
    /\ last.detail = <<"Prediction failed", "Prediction failed", "'Ensemble'">>

\* a successful prediction of the legacy variant
LegacySuccess == variant = "legacy" /\ Success

\* C17: in the legacy variant risk_category is a function of gdm_probability
\* alone (Low Risk iff p < 0.3, Moderate Risk iff 0.3 <= p < 0.6, High Risk iff
\* p >= 0.6), and the label is the class the meta-model's prediction names
\* (class 1 of a classifier, a regression value above 0.5), whatever the
\* probability and the optimal_threshold of the preprocessing state are.
C17_LegacyRiskByProbability ==
    LegacySuccess =>
        LET p == last.outcome.gdm_probability
            risk == last.outcome.risk_category
            prediction == last.ctx.predictions[1]
            classification == The(The(model_metadata).problem_type) = "classification"
        IN  /\ (risk = "Low Risk") <=> (p < 300)
            /\ (risk = "Moderate Risk") <=> (300 <= p /\ p < 600)
            /\ (risk = "High Risk") <=> (p >= 600)
            /\ (last.outcome.prediction = "GDM")
                   <=> IF classification THEN prediction = Fx(1) ELSE prediction > 500
            /\ last.outcome.prediction \in {"GDM", "Non GDM"}

\* probability 0.6 is High Risk, and the label stays Non GDM although the
\* probability is above the optimal_threshold 0.3 of the preprocessing state
C17_Witness ==
    /\ LegacySuccess
    /\ The(model_components).preprocessing.optimal_threshold = Some(300)
    /\ last.outcome.gdm_probability = 600
    /\ last.ctx.predictions = <<0>>
    /\ last.outcome.prediction = "Non GDM"
    /\ last.outcome.risk_category = "High Risk"

\* C18: for a model set with at least one base model, the row handed to the
\* "Ensemble" model has one entry per model other than "Ensemble", in model-set
\* order: the prediction of that model, or 0 when its prediction failed. The
\* request is not aborted by failing base models, even when all of them fail.
C18_OneColumnPerBaseModel ==
    (/\ Predicted /\ ~IsNone(model_components)
     /\ "base_models" \in SeqToSet(last.ctx.stages)
     /\ BaseModels(The(model_components).models) # <<>>)
    => LET base == BaseModels(The(model_components).models)
           X == last.ctx.scaled_df
           stacked == last.ctx.stacked
       IN  /\ Len(stacked) = Len(base)
           /\ \A j \in 1..Len(base) :
                  stacked[j] = IF BasePredict(base[j], X).raised THEN 0
                               ELSE BasePredict(base[j], X).pred
           /\ "ensemble" \in SeqToSet(last.ctx.stages)

\* every base model fails: two zero columns reach the meta-model and the
\* request is answered
C18_Witness ==
    /\ Predicted /\ ~IsNone(model_components)
    /\ Len(The(model_components).models) = 3
    /\ \A j \in 1..2 : BasePredict(BaseModels(The(model_components).models)[j],
                                     last.ctx.scaled_df).raised
    /\ last.ctx.stacked = <<0, 0>>
    /\ last.status = 200

\* a direct call of the extended variant that went through alignment
Aligned == variant = "extended" /\ Answered("call")
           /\ "alignment" \in SeqToSet(last.ctx.stages)

\* the defaults of the spec's policy; every other column, the columns named
\* after a risk or a score among them, defaults to 0
PolicyDefault(col) ==
    IF col = "Age" THEN 28000
    ELSE IF col = "BMI" THEN 23000
    ELSE IF col = "OGTT" THEN 120000
    ELSE IF col = "Hemoglobin" THEN 12000
    ELSE IF col = "HDL" THEN 50000
    ELSE 0

\* C19: in the extended variant the frame handed to the scaler has exactly the
\* columns of feature_columns, in declared order; a column that the encoded
\* record holds keeps its value, and one it lacks holds its policy default.
C19_AlignedToFeatureColumns ==
    Aligned =>
        LET feature_columns == The(The(model_components).preprocessing.feature_columns)
            processed == last.ctx.processed
            final_data == last.ctx.final_data
        IN  /\ final_data.cols = feature_columns
            /\ DOMAIN final_data.cell = SeqToSet(feature_columns)
            /\ \A col \in SeqToSet(feature_columns) :
                   final_data.cell[col] = IF HasCol(processed, col) THEN processed.cell[col]
                                          ELSE Num(PolicyDefault(col))

\* Age, BMI, OGTT, Hemoglobin and HDL absent from the record: each gets its
\* own default, the risk and score columns and the unknown column get 0, and
\* the extra raw fields are dropped
C19_Witness ==
    /\ Aligned
    /\ last.ctx.final_data.cols = PipeFeatureColumns("extended")
    /\ ~HasCol(last.ctx.processed, "Age") /\ ~HasCol(last.ctx.processed, "HDL")
    /\ HasCol(last.ctx.processed, "Prediabetes")
    /\ last.ctx.final_data.cell["Age"] = Num(28000)
    /\ last.ctx.final_data.cell["BMI"] = Num(23000)
    /\ last.ctx.final_data.cell["OGTT"] = Num(120000)
    /\ last.ctx.final_data.cell["Hemoglobin"] = Num(12000)
    /\ last.ctx.final_data.cell["HDL"] = Num(50000)
    /\ last.ctx.final_data.cell["Diet_Score"] = Num(0)
    /\ last.ctx.final_data.cell["Ethnicity"] = Num(0)
    /\ last.ctx.final_data.cell["Sys BP"] = Num(110000)

\* C20: when the Feature Engineer raises on a record, the request does not fail
\* for it: the pipeline goes on with the unmodified record (no derived column
\* added) through encoding, default-fill alignment, scaling and the ensemble,
\* and a prediction is returned.
C20_FeatureEngineeringFallback ==
    (Called /\ last.ctx.fe_raised) =>
        /\ last.ctx.enhanced = last.ctx.data
        /\ \A i \in 1..Len(DerivedColumns) :
               ~HasCol(last.ctx.enhanced, DerivedColumns[i].col)
        /\ last.ctx.stages = <<"feature_engineering", "encoding", "alignment", "scaling",
                               "base_models", "ensemble", "interpretation">>
        /\ last.ctx.final_data.cols
               = The(The(model_components).preprocessing.feature_columns)
        /\ last.ctx.pc = "done"
        /\ ~IsNone(last.ctx.outcome)

\* No of Pregnancy absent, BMI present: the Feature Engineer raised, the
\* BMI_Risk_Score the model was trained on was filled with its default, and an
\* outcome came back
C20_Witness ==
    /\ Called /\ last.ctx.fe_raised
    /\ HasCol(last.ctx.data, "BMI") /\ HasCol(last.ctx.data, "Age")
    /\ ~HasCol(last.ctx.data, "No of Pregnancy")
    /\ last.ctx.final_data.cell["BMI_Risk_Score"] = Num(0)
    /\ last.ctx.pc = "done"
    /\ The(last.ctx.outcome).prediction \in {"GDM", "Non GDM"}

\* a request whose meta-model predicted class 0 or 1 and has no usable
\* predict_proba
NoProbabilityOutput ==
    /\ Predicted /\ ~IsNone(model_components)
    /\ last.ctx.predictions # <<>>
    /\ last.ctx.predictions[1] \in {0, Fx(1)}
    /\ ModelNamed(The(model_components).models, "Ensemble").proba = "raises"

\* C21: when the probability output of the "Ensemble" model is unavailable, the
\* probability vector of the row is [1 - label, label] with label the class the
\* model predicted, the returned gdm_probability equals that class (0 or 1),
\* non_gdm_probability is its complement, and the request succeeds.
C21_ProbabilityFallback ==
    NoProbabilityOutput =>
        LET label == last.ctx.predictions[1]
        IN  /\ last.ctx.probabilities = <<<<Fx(1) - label, label>>>>
            /\ last.status = 200
            /\ last.outcome.gdm_probability = label
            /\ last.outcome.non_gdm_probability = Fx(1) - label

\* the extended variant, class 1 predicted from the base models' votes: the
\* prediction comes back with probability 1
C21_Witness ==
    /\ NoProbabilityOutput
    /\ variant = "extended"
    /\ ModelNamed(The(model_components).models, "Ensemble").follow
    /\ last.ctx.predictions = <<Fx(1)>>
    /\ last.outcome.gdm_probability = Fx(1)
    /\ last.outcome.prediction = "GDM"

\* C22 as stated: in every reachable state, before, during and after startup,
\* model_components is None if and only if model_metadata is None.
C22_GlobalsSetTogether ==
    IsNone(model_components) <=> IsNone(model_metadata)

\* C22 as amended: the two globals are assigned by two consecutive statements
\* of lifespan(). Between them model_components is set and model_metadata is
\* still None; in every other state, before startup and once it has completed
\* (whether loading succeeded or failed at any step), model_components is None
\* if and only if model_metadata is None, so the state every handler observes
\* has both or neither.
C22_GlobalsSetTogetherWhenServing ==
    /\ startup_pc = "assign" => (~IsNone(model_components) /\ IsNone(model_metadata))
    /\ startup_pc # "assign" => (IsNone(model_components) <=> IsNone(model_metadata))
    /\ startup_pc \in {"load", "assign", "log", "serving"}
    /\ last.kind # "none" => Serving

\* startup failed in its logging lines, after both globals were assigned, and
\* /model-info then ran with both of them set
C22_Witness ==
    /\ Serving
    /\ ~IsNone(startup_error)
    /\ ~IsNone(model_components) /\ ~IsNone(model_metadata)
    /\ Answered("model_info")

=============================================================================
